---- MODULE Spec2Model ----
(***************************************************************************)
(* Model of agents/herbs_info_extraction.py: the prompt-chaining pipeline  *)
(* extract_initial_information -> validate_extraction ->                   *)
(* re_extract_missing_fields -> (final) validate_extraction, driven by     *)
(* extract_herb_information.                                               *)
(*                                                                         *)
(* A Python str is a sequence of one-character strings.  A dict is a       *)
(* function whose DOMAIN is its key set; the iteration order of the dicts  *)
(* of the program is the order of FieldOrder.                              *)
(***************************************************************************)
EXTENDS Integers, Sequences, FiniteSets, TLC

\* ------------------------------------------------------------------ bounds

\* While the service is up, at most this many generation calls of one run do
\* anything but succeed with the plain complete answer.
MaxOdd == 1

\* A record handed to a function called directly holds something else than the
\* plain complete answer in at most this many fields.
MaxOddValues == 1

\* A list of fields to fix handed to re_extract_missing_fields directly has at
\* most this many elements.
MaxFixLen == 2

\* ------------------------------------------------------------- str helpers

\* The characters str.strip() removes.
IsSpace(c) == c \in {" ", "\t", "\n"}

RECURSIVE LStrip(_)
LStrip(s) == IF s # <<>> /\ IsSpace(Head(s)) THEN LStrip(Tail(s)) ELSE s

RECURSIVE RStrip(_)
RStrip(s) ==
    IF s # <<>> /\ IsSpace(s[Len(s)]) THEN RStrip(SubSeq(s, 1, Len(s) - 1)) ELSE s

\* str.strip()
Strip(s) == RStrip(LStrip(s))

\* str.lower() on one character (the upper-case letters the model's texts use)
LowerChar(c) ==
    CASE c = "A" -> "a" [] c = "B" -> "b" [] c = "D" -> "d" [] c = "E" -> "e"
      [] c = "I" -> "i" [] c = "L" -> "l" [] c = "M" -> "m" [] c = "N" -> "n"
      [] c = "O" -> "o" [] c = "T" -> "t" [] c = "V" -> "v"
      [] OTHER -> c

\* str.lower()
Lower(s) == [k \in DOMAIN s |-> LowerChar(s[k])]

\* The string literals of the program.
NotMentioned == <<"N", "o", "t", " ", "m", "e", "n", "t", "i", "o", "n", "e", "d">>
NotAvailable == <<"N", "o", "t", " ", "a", "v", "a", "i", "l", "a", "b", "l", "e">>
EmptyStr == <<>>
LowerNotMentioned == <<"n", "o", "t", " ", "m", "e", "n", "t", "i", "o", "n", "e", "d">>
LowerNotAvailable == <<"n", "o", "t", " ", "a", "v", "a", "i", "l", "a", "b", "l", "e">>

\* Python's None: no str, and distinct from every str.
None == <<"<None>">>

\* The characters of the model's texts, and what a str is.
Char == {" ", "\t", "\n", "a", "b", "c", "d", "e", "i", "l", "m", "n", "o", "t", "u",
         "v", "r", "N", "O", "T", "M", "E", "I", "D", "A", "V", "L", "B"}
IsStr(v) == \A k \in DOMAIN v : v[k] \in Char

\* ------------------------------------------------------------------ schema

\* The 16 fields, in the order of the dataclass and of extraction_prompts.
FieldOrder ==
    <<"title", "authors", "year", "scientific_name", "medicinal_use",
      "biological_activity", "dose", "phytochemicals", "plant_part_used",
      "formulation", "botanic_description", "toxicity", "adverse_reactions",
      "health_benefits", "nutritional_benefits", "reference">>

Fields == {FieldOrder[k] : k \in DOMAIN FieldOrder}

\* The keys of extraction_prompts, in insertion order.
ExtractionPromptOrder == FieldOrder

\* A table of repair prompts with a template for each of the 16 fields.
RepairPromptFieldsAll == Fields

\* The keys of re_extraction_prompts.
RepairPromptFields == Fields \ {"title", "authors", "biological_activity"}

\* The "not found" marker each field is configured with: the default of its
\* .get() in the constructor call, the text its extraction prompt asks for.
Sentinel(f) == IF f \in {"title", "authors", "year"} THEN NotAvailable ELSE NotMentioned

\* ------------------------------------------------------ generation service

\* The plain complete answer: a text of exactly five characters.
Canonical == <<"a", "b", "c", "d", "e">>

\* The texts the generation service may return.
Responses ==
    { Canonical,
      <<" ", "\n">>,
      <<" ">> \o NotAvailable \o <<"\n">>,
      <<"N", "O", "T", " ", "M", "E", "N", "T", "I", "O", "N", "E", "D", " ">>,
      <<" ", "a", "b", "c", "d", " ">> }

\* The outcome of chain.invoke: a text, or an exception.
Failure == [ok |-> FALSE, text |-> EmptyStr]
Success(r) == [ok |-> TRUE, text |-> r]
Outcomes == {Failure} \cup {Success(r) : r \in Responses}

IsOdd(o) == o # Success(Canonical)

\* ------------------------------------------------------------- dict helpers

\* {} : the dict with no key
EmptyDict == [k \in {} |-> EmptyStr]

\* d[k] = v
DictSet(d, k, v) == [x \in DOMAIN d \cup {k} |-> IF x = k THEN v ELSE d[x]]

\* d.get(k, default)
Get(d, k, default) == IF k \in DOMAIN d THEN d[k] ELSE default

\* list(d): the keys of a dict built in schema order, in that order
Keys(d) == SelectSeq(FieldOrder, LAMBDA f : f \in DOMAIN d)

\* A local that is not bound yet.
NoRecord == EmptyDict
NoList == <<>>

\* -------------------------------------------------------------------- state

VARIABLES
    paper_text,          \* the document handed in
    verbose,             \* the verbose flag of extract_herb_information
    entry,               \* the function the caller invoked
    order,               \* the order in which each loop takes the fields
    service,             \* per stage and field: the outcome the service is fixed to
    serviceDown,         \* the generation service fails every call
    odd,                 \* calls so far that were not the plain complete answer
    pc,                  \* position in the program
    i,                   \* extract_initial_information: index of the next prompt
    extracted_fields,    \* extract_initial_information: the dict being filled
    extraction,          \* extract_herb_information: the local `extraction`
    first_extraction,    \* the record extract_initial_information returned
    validations,         \* the first validation report
    missing_fields,      \* the list handed to re_extract_missing_fields
    initial_extraction,  \* re_extract_missing_fields: the record passed in
    updated_extraction,  \* re_extract_missing_fields: the copy being updated
    j,                   \* re_extract_missing_fields: index into missing_fields
    final_validations,   \* the report of the final validation
    complete_count,      \* the count the final validation prints
    returned,            \* what the invoked function returned
    raised,              \* an exception reached the caller
    extractCalls,        \* per field: generation calls issued by extraction
    extractOutcome,      \* per field: outcome of its last extraction call
    repairCalls,         \* per field: generation calls issued by repair
    repairOutcome,       \* re_extract_missing_fields: the field and the outcome of
                         \* the call of the loop iteration just run
    repairEntered        \* times re_extract_missing_fields was entered

inputVars == <<paper_text, verbose, entry, order, service>>
serviceVars == <<serviceDown, odd>>
extractVars == <<i, extracted_fields, first_extraction, extractCalls, extractOutcome>>
validateVars == <<validations, missing_fields>>
repairVars == <<initial_extraction, updated_extraction, j, repairCalls, repairOutcome,
                repairEntered>>
finalVars == <<final_validations, complete_count>>
resultVars == <<returned, raised>>

vars == <<inputVars, serviceVars, pc, extractVars, extraction, validateVars, repairVars,
          finalVars, resultVars>>

\* No call issued for the field.
NoCall == [ok |-> FALSE, text |-> None]

\* No loop iteration of re_extract_missing_fields has issued a call.
NoRepairCall == [field |-> "", ok |-> FALSE, text |-> None]
RepairCallOf(f, o) == [field |-> f, ok |-> o.ok, text |-> o.text]

\* The names a list of fields to fix may hold: the schema's, and one that is none.
CallNames == Fields \cup {"bogus"}

\* ------------------------------------------------------ generation service

\* chain.invoke may end this way now.
CallAllowed(o) ==
    IF serviceDown THEN o = Failure ELSE (~IsOdd(o) \/ odd < MaxOdd)

Called(o) ==
    /\ odd' = IF ~serviceDown /\ IsOdd(o) THEN odd + 1 ELSE odd
    /\ UNCHANGED serviceDown

\* The service comes back between the two stages.
ServiceRecovers ==
    /\ serviceDown
    /\ pc = "repair_call"
    /\ serviceDown' = FALSE
    /\ UNCHANGED <<inputVars, odd, pc, extractVars, extraction, validateVars, repairVars,
                   finalVars, resultVars>>

\* ----------------------------------- Step 1: extract_initial_information

\* A try-body that looks at the other fields: an answer some field already
\* holds is not stored a second time.
OnExtractSuccessDedup(d, f, r) ==
    IF \E g \in DOMAIN d : d[g] = Strip(r)
    THEN DictSet(d, f, NotMentioned)
    ELSE DictSet(d, f, Strip(r))

\* try-body of the loop: extracted_fields[field_name] = result.strip()
OnExtractSuccess(d, f, r) == DictSet(d, f, Strip(r))

\* A handler that stores a word about the error as the field's text.
OnExtractFailureMessage(d, f) == DictSet(d, f, <<"E", "r", "r", "o", "r">>)

\* A handler that stores no text for the failed field.
OnExtractFailureNone(d, f) == DictSet(d, f, None)

\* except-body of the loop: extracted_fields[field_name] = "Not mentioned"
OnExtractFailure(d, f) == DictSet(d, f, NotMentioned)

\* A loop that a failed call ends.
ExtractNextAbort(k, o) == IF o.ok THEN k + 1 ELSE Len(ExtractionPromptOrder) + 1

\* The for loop moves on to the next prompt whatever the call did.
ExtractNext(k, o) == k + 1

\* A constructor call written with `or`: an empty text gets the default too.
HerbExtractionResultOrDefault(d) ==
    [f \in Fields |-> IF Get(d, f, EmptyStr) = EmptyStr THEN Sentinel(f) ELSE d[f]]

\* HerbExtractionResult(title=extracted_fields.get("title", "Not available"), ...)
HerbExtractionResult(d) == [f \in Fields |-> Get(d, f, Sentinel(f))]

\* extract_herb_information is entered: it checks nothing about paper_text
\* and calls extract_initial_information.
Start ==
    /\ pc = "start"
    /\ pc' = "extract"
    /\ i' = 1
    /\ extracted_fields' = EmptyDict
    /\ UNCHANGED <<inputVars, serviceVars, first_extraction, extractCalls, extractOutcome,
                   extraction, validateVars, repairVars, finalVars, resultVars>>

\* One iteration of `for field_name, prompt_template in extraction_prompts.items()`.
ExtractField ==
    /\ pc = "extract"
    /\ i <= Len(ExtractionPromptOrder)
    /\ \E o \in Outcomes :
         /\ CallAllowed(o)
         /\ Called(o)
         /\ LET f == ExtractionPromptOrder[i] IN
              /\ extracted_fields' =
                    IF o.ok THEN OnExtractSuccess(extracted_fields, f, o.text)
                    ELSE OnExtractFailure(extracted_fields, f)
              /\ extractCalls' = [extractCalls EXCEPT ![f] = @ + 1]
              /\ extractOutcome' = [extractOutcome EXCEPT ![f] = o]
              /\ i' = ExtractNext(i, o)
    /\ UNCHANGED <<inputVars, pc, first_extraction, extraction, validateVars, repairVars,
                   finalVars, resultVars>>

\* The loop is over: build the result object, return it, and
\* extract_herb_information binds it to `extraction`.
ExtractReturn ==
    /\ pc = "extract"
    /\ i > Len(ExtractionPromptOrder)
    /\ extraction' = HerbExtractionResult(extracted_fields)
    /\ first_extraction' = extraction'
    /\ pc' = "validate"
    /\ UNCHANGED <<inputVars, serviceVars, i, extracted_fields, extractCalls,
                   extractOutcome, validateVars, repairVars, finalVars, resultVars>>

\* ----------------------------------------------- Step 2: validate_extraction

MISSING == "missing"
PARTIAL == "partial"
COMPLETE == "complete"

\* The confidences, in tenths.
ConfMissing == 0
ConfPartial == 3
ConfComplete == 9

\* len(value.strip()) < 5
MinContentLen == 5

\* A threshold test that is off by one: len(value.strip()) <= 5.
FieldStatusOffByOne(value) ==
    IF value \in {NotMentioned, NotAvailable, EmptyStr} THEN MISSING
    ELSE IF Len(Strip(value)) <= MinContentLen THEN PARTIAL
    ELSE COMPLETE

\* The if/elif/else of the loop body.
FieldStatus(value) ==
    IF value \in {NotMentioned, NotAvailable, EmptyStr} THEN MISSING
    ELSE IF Len(Strip(value)) < MinContentLen THEN PARTIAL
    ELSE COMPLETE

FieldConfidence(value) ==
    IF value \in {NotMentioned, NotAvailable, EmptyStr} THEN ConfMissing
    ELSE IF Len(Strip(value)) < MinContentLen THEN ConfPartial
    ELSE ConfComplete

\* An entry that keeps the trimmed text instead of the value it was given.
FieldValidationTrimmed(f, value) ==
    [field_name |-> f, value |-> Strip(value), status |-> FieldStatus(value),
     confidence |-> FieldConfidence(value)]

\* FieldValidation(field_name=field_name, value=value, status=status,
\* confidence=confidence)
FieldValidation(f, value) ==
    [field_name |-> f, value |-> value, status |-> FieldStatus(value),
     confidence |-> FieldConfidence(value)]

\* validate_extraction(extraction)
validate_extraction(e) == [f \in DOMAIN e |-> FieldValidation(f, e[f])]

\* A selection that takes only the fields with no value at all.
get_missing_fields_only_missing(v) ==
    SelectSeq(Keys(v), LAMBDA f : v[f].status = MISSING)

\* A selection that hands every field of the report to repair.
get_missing_fields_every_field(v) == Keys(v)

\* get_missing_fields(validations)
get_missing_fields(v) ==
    SelectSeq(Keys(v), LAMBDA f : v[f].status \in {MISSING, PARTIAL})

NoReport == EmptyDict

\* A validator that tidies the record it was given: it writes the trimmed text
\* back into each field.
AfterValidationTrimmed(e) == [f \in DOMAIN e |-> Strip(e[f])]

\* The record validate_extraction was given, once it has returned: the function
\* reads extraction.to_dict() and assigns no attribute of extraction.
AfterValidation(e) == e

\* A driver that runs step 3 whatever the list holds.
RepairAlways(missing) == TRUE

\* `if missing_fields:` a list is true when it is not empty.
RepairNeeded(missing) == missing # <<>>

\* validations = validate_extraction(extraction);
\* missing_fields = get_missing_fields(validations); `if missing_fields:`
Validate ==
    /\ pc = "validate"
    /\ validations' = validate_extraction(extraction)
    /\ missing_fields' = get_missing_fields(validations')
    /\ extraction' = AfterValidation(extraction)
    /\ pc' = IF RepairNeeded(missing_fields') THEN "repair_call" ELSE "final"
    /\ UNCHANGED <<inputVars, serviceVars, extractVars, repairVars, finalVars, resultVars>>

\* ------------------------------------- Step 3: re_extract_missing_fields

\* A "copy" that is a fresh record of sentinels.
CopyRecordFresh(e) == [f \in DOMAIN e |-> Sentinel(f)]

\* HerbExtractionResult(**initial_extraction.to_dict()): a new object with the
\* same field values.
CopyRecord(e) == [f \in DOMAIN e |-> e[f]]

\* setattr(updated_extraction, field, value)
SetAttr(e, f, value) == [x \in DOMAIN e \cup {f} |-> IF x = f THEN value ELSE e[x]]

\* An acceptance test that takes whatever the call returned.
AcceptsAnything(r) == TRUE

\* An acceptance test that forgets .lower().
AcceptsCaseSensitive(r) ==
    /\ r # EmptyStr
    /\ Strip(r) # EmptyStr
    /\ Strip(r) \notin {LowerNotMentioned, LowerNotAvailable, EmptyStr}

\* result and result.strip() and
\* result.strip().lower() not in ("not mentioned", "not available", "")
Accepts(r) ==
    /\ r # EmptyStr
    /\ Strip(r) # EmptyStr
    /\ Lower(Strip(r)) \notin {LowerNotMentioned, LowerNotAvailable, EmptyStr}

\* The body of `if field in re_extraction_prompts:` for a call that ended as o:
\* the try sets the field when the result is accepted, the except only prints.
RepairUpdate(e, f, o) ==
    IF o.ok /\ Accepts(o.text) THEN SetAttr(e, f, Strip(o.text)) ELSE e

\* A function that binds updated_extraction to the object passed in: what is
\* set on the one is seen through the other.
InputSeenAfterAliased(input, updated) == updated

\* The object passed in as initial_extraction, after a loop iteration that left
\* updated_extraction as `updated`: updated_extraction is a new object built
\* from to_dict(), so setattr on it changes nothing the input holds.
InputSeenAfter(input, updated) == input

\* A loop body without the try/except.
RepairCatchesNothing(o) == FALSE

\* The except clause catches Exception: nothing leaves the loop body.
RepairCatches(o) == TRUE

\* A loop that tries a field again when its call failed.
RepairNextRetry(k, o) == IF o.ok THEN k + 1 ELSE k

\* The for loop moves on to the next element whatever the call did.
RepairNext(k, o) == k + 1

\* A loop body without `if field in re_extraction_prompts`.
RepairCallsForAll(f) == 1

\* The calls the loop body issues for a field of missing_fields.
RepairCallsFor(f) == IF f \in RepairPromptFields THEN 1 ELSE 0

\* re_extract_missing_fields(paper_text, missing_fields, extraction) is entered.
RepairCall ==
    /\ pc = "repair_call"
    /\ initial_extraction' = extraction
    /\ updated_extraction' = CopyRecord(extraction)
    /\ j' = 1
    /\ repairEntered' = repairEntered + 1
    /\ pc' = "repair"
    /\ UNCHANGED <<inputVars, serviceVars, extractVars, extraction, validateVars,
                   repairCalls, repairOutcome, finalVars, resultVars>>

\* One iteration of `for field in missing_fields:` on a field with a prompt.
RepairField ==
    /\ pc = "repair"
    /\ j <= Len(missing_fields)
    /\ RepairCallsFor(missing_fields[j]) > 0
    /\ \E o \in Outcomes :
         /\ CallAllowed(o)
         /\ Called(o)
         /\ LET f == missing_fields[j] IN
              /\ repairCalls' = [repairCalls EXCEPT ![f] = @ + RepairCallsFor(f)]
              /\ repairOutcome' = RepairCallOf(f, o)
              /\ IF o.ok \/ RepairCatches(o)
                 THEN /\ updated_extraction' = RepairUpdate(updated_extraction, f, o)
                      /\ initial_extraction' =
                            InputSeenAfter(initial_extraction, updated_extraction')
                      /\ j' = RepairNext(j, o)
                      /\ UNCHANGED <<pc, raised>>
                 ELSE /\ raised' = TRUE
                      /\ pc' = "done"
                      /\ UNCHANGED <<updated_extraction, initial_extraction, j>>
    /\ UNCHANGED <<inputVars, extractVars, extraction, validateVars, repairEntered,
                   finalVars, returned>>

\* One iteration on a field that is no key of re_extraction_prompts: no call.
RepairSkip ==
    /\ pc = "repair"
    /\ j <= Len(missing_fields)
    /\ RepairCallsFor(missing_fields[j]) = 0
    /\ j' = j + 1
    /\ UNCHANGED <<inputVars, serviceVars, pc, extractVars, extraction, validateVars,
                   initial_extraction, updated_extraction, repairCalls, repairOutcome,
                   repairEntered, finalVars, resultVars>>

\* return updated_extraction; in extract_herb_information the result is bound
\* to `extraction`.
RepairReturn ==
    /\ pc = "repair"
    /\ j > Len(missing_fields)
    /\ IF entry = "extract_herb_information"
       THEN /\ extraction' = updated_extraction
            /\ pc' = "final"
            /\ UNCHANGED returned
       ELSE /\ returned' = updated_extraction
            /\ pc' = "done"
            /\ UNCHANGED extraction
    /\ repairOutcome' = NoRepairCall
    /\ UNCHANGED <<inputVars, serviceVars, extractVars, validateVars, initial_extraction,
                   updated_extraction, j, repairCalls, repairEntered, finalVars, raised>>

\* ------------------------------------------- final validation and return

\* complete_count = sum(1 for v in final_validations.values() if v.status == COMPLETE)
CompleteCount(v) == Cardinality({f \in DOMAIN v : v[f].status = COMPLETE})

\* A driver that goes back to step 3 while the final report shows a field
\* that is not COMPLETE.
AfterFinalValidationAgain(report) ==
    IF \E f \in DOMAIN report : report[f].status # COMPLETE THEN "repair_call" ELSE "return"

\* The statement after the final validation is `return extraction`: the report
\* is printed and decides nothing.
AfterFinalValidation(report) == "return"

\* `if verbose:` final_validations = validate_extraction(extraction)
FinalValidation ==
    /\ pc = "final"
    /\ IF verbose
       THEN /\ final_validations' = validate_extraction(extraction)
            /\ complete_count' = CompleteCount(final_validations')
            /\ extraction' = AfterValidation(extraction)
            /\ pc' = AfterFinalValidation(final_validations')
       ELSE /\ UNCHANGED <<finalVars, extraction>>
            /\ pc' = "return"
    /\ UNCHANGED <<inputVars, serviceVars, extractVars, validateVars, repairVars, resultVars>>

\* return extraction
Return ==
    /\ pc = "return"
    /\ returned' = extraction
    /\ pc' = "done"
    /\ UNCHANGED <<inputVars, serviceVars, extractVars, extraction, validateVars,
                   repairVars, finalVars, raised>>

\* ------------------------------------------------------------ the pipeline

\* The documents handed in: none, and a paper.
Documents == {EmptyStr, <<"D", "o", "s", "e", ":", " ", "2", "g">>}

InitLocals ==
    /\ odd = 0
    /\ i = 0
    /\ extracted_fields = EmptyDict
    /\ first_extraction = NoRecord
    /\ validations = NoReport
    /\ initial_extraction = NoRecord
    /\ updated_extraction = NoRecord
    /\ j = 0
    /\ final_validations = NoReport
    /\ complete_count = 0
    /\ returned = NoRecord
    /\ raised = FALSE
    /\ extractCalls = [f \in Fields |-> 0]
    /\ extractOutcome = [f \in Fields |-> NoCall]
    /\ repairCalls = [f \in CallNames |-> 0]
    /\ repairOutcome = NoRepairCall
    /\ repairEntered = 0

\* The loops of the code take the fields in schema order, and the outcomes of
\* the service are not fixed ahead of a run.
CodeOrder == [extraction |-> FieldOrder, repair |-> FieldOrder]
NoService == [extraction |-> EmptyDict, repair |-> EmptyDict]
InitCodeOrder == order = CodeOrder /\ service = NoService

\* A caller invokes extract_herb_information(paper_text, verbose).
InitPipeline ==
    /\ paper_text \in Documents
    /\ verbose \in BOOLEAN
    /\ entry = "extract_herb_information"
    /\ serviceDown \in BOOLEAN
    /\ pc = "start"
    /\ extraction = NoRecord
    /\ missing_fields = NoList
    /\ InitLocals
    /\ InitCodeOrder

\* ------------------------------------------- the functions called directly

\* Field values a caller may put in a record: texts the pipeline stores, and
\* texts it never stores (not trimmed).
RawValues ==
    { EmptyStr,
      <<" ">>,
      NotMentioned,
      NotAvailable,
      <<" ", "a", "b", "c", "d">>,
      LowerNotMentioned }

\* The fields of such a record that may hold something else than the plain
\* complete answer, and the names a list of fields to fix is made of.
UnitFields == {"title", "dose"}
UnitFixNames == UnitFields \cup {"bogus"}

RECURSIVE RecordsUpTo(_)
RecordsUpTo(n) ==
    IF n = 0 THEN {[f \in Fields |-> Canonical]}
    ELSE LET P == RecordsUpTo(n - 1) IN
         P \cup {[r EXCEPT ![f] = v] : r \in P, f \in UnitFields, v \in RawValues}

UnitRecords == RecordsUpTo(MaxOddValues)

UnitFixLists == UNION {[1..n -> UnitFixNames] : n \in 0..MaxFixLen}

\* A caller invokes validate_extraction(extraction).
InitValidateCall ==
    /\ paper_text = EmptyStr
    /\ verbose = FALSE
    /\ entry = "validate_extraction"
    /\ serviceDown = FALSE
    /\ pc = "validate_call"
    /\ extraction \in UnitRecords
    /\ missing_fields = NoList
    /\ InitLocals
    /\ InitCodeOrder

\* A caller invokes re_extract_missing_fields(paper_text, missing_fields, extraction).
InitRepairCall ==
    /\ paper_text \in Documents \ {EmptyStr}
    /\ verbose = FALSE
    /\ entry = "re_extract_missing_fields"
    /\ serviceDown \in BOOLEAN
    /\ pc = "repair_call"
    /\ extraction \in UnitRecords
    /\ missing_fields \in UnitFixLists
    /\ InitLocals
    /\ InitCodeOrder

\* validate_extraction called directly: the report is what it returns.
ValidateCall ==
    /\ pc = "validate_call"
    /\ validations' = validate_extraction(extraction)
    /\ extraction' = AfterValidation(extraction)
    /\ pc' = "done"
    /\ UNCHANGED <<inputVars, serviceVars, extractVars, missing_fields, repairVars,
                   finalVars, resultVars>>

\* ------------------------------ the two loops, taken in any order of fields

\* One iteration of the extraction loop on field f whose call ends as o.
ExtractIteration(d, f, o) ==
    IF o.ok THEN OnExtractSuccess(d, f, o.text) ELSE OnExtractFailure(d, f)

\* for field_name, prompt_template in extraction_prompts.items(): ... with the
\* keys taken in the order ord and the call for f ending as table[f].
RECURSIVE ExtractLoop(_, _, _)
ExtractLoop(d, ord, table) ==
    IF ord = <<>> THEN d
    ELSE ExtractLoop(ExtractIteration(d, Head(ord), table[Head(ord)]), Tail(ord), table)

\* extract_initial_information as a whole.
ExtractedIn(ord, table) == HerbExtractionResult(ExtractLoop(EmptyDict, ord, table))

\* One iteration of the repair loop on field f whose call, if one is issued,
\* ends as o.
RepairIteration(e, f, o) == IF RepairCallsFor(f) > 0 THEN RepairUpdate(e, f, o) ELSE e

\* for field in missing_fields: ... with the call for f ending as table[f].
RECURSIVE RepairLoop(_, _, _)
RepairLoop(e, list, table) ==
    IF list = <<>> THEN e
    ELSE RepairLoop(RepairIteration(e, Head(list), table[Head(list)]), Tail(list), table)

\* The fields get_missing_fields selects, listed in the order ord.
MissingIn(ord, rec) ==
    LET missing == get_missing_fields(validate_extraction(rec)) IN
    SelectSeq(ord, LAMBDA f : \E k \in DOMAIN missing : missing[k] = f)

\* Steps 2 and 3 of extract_herb_information as a whole.
RepairedIn(ord, rec, table) ==
    LET missing == MissingIn(ord, rec) IN
    IF RepairNeeded(missing) THEN RepairLoop(CopyRecord(rec), missing, table) ELSE rec

\* The fields whose outcomes differ from the plain answer in a fixed service.
OrderFields == {"title", "dose", "reference"}

RECURSIVE ServicesUpTo(_)
ServicesUpTo(n) ==
    IF n = 0
    THEN { [extraction |-> [f \in Fields |-> o], repair |-> [f \in Fields |-> Success(Canonical)]] :
             o \in {Success(Canonical), Failure} }
    ELSE LET P == ServicesUpTo(n - 1) IN
         P \cup {[t EXCEPT ![st][f] = o] :
                   t \in P, st \in {"extraction", "repair"}, f \in OrderFields, o \in Outcomes}

FixedServices == ServicesUpTo(MaxOdd)

\* Orders of the 16 fields: the schema's, its reverse, one rotated by one
\* place, and one with the first two fields swapped.
Reverse(q) == [k \in DOMAIN q |-> q[Len(q) + 1 - k]]
Rotate(q) == Tail(q) \o <<Head(q)>>
SwapFirst(q) == <<q[2], q[1]>> \o Tail(Tail(q))
FieldOrders == {FieldOrder, Reverse(FieldOrder), Rotate(FieldOrder), SwapFirst(FieldOrder)}

\* A run of the pipeline whose loops take the fields in a chosen order, on a
\* service with a fixed outcome per stage and field.
InitAnyOrder ==
    /\ paper_text \in Documents \ {EmptyStr}
    /\ verbose = FALSE
    /\ entry = "any_order"
    /\ serviceDown = FALSE
    /\ pc = "any_order_extract"
    /\ extraction = NoRecord
    /\ missing_fields = NoList
    /\ InitLocals
    /\ order \in [extraction : FieldOrders, repair : FieldOrders]
    /\ service \in FixedServices

\* Step 1 with the fields taken in order.extraction.
AnyOrderExtract ==
    /\ pc = "any_order_extract"
    /\ extraction' = ExtractedIn(order.extraction, service.extraction)
    /\ first_extraction' = extraction'
    /\ pc' = "any_order_repair"
    /\ UNCHANGED <<inputVars, serviceVars, i, extracted_fields, extractCalls,
                   extractOutcome, validateVars, repairVars, finalVars, resultVars>>

\* Steps 2 and 3 with the fields taken in order.repair, and the return.
AnyOrderRepair ==
    /\ pc = "any_order_repair"
    /\ validations' = validate_extraction(extraction)
    /\ missing_fields' = MissingIn(order.repair, extraction)
    /\ returned' = RepairedIn(order.repair, extraction, service.repair)
    /\ pc' = "done"
    /\ UNCHANGED <<inputVars, serviceVars, extractVars, extraction, repairVars,
                   finalVars, raised>>

Init ==
    \/ InitPipeline
    \/ InitValidateCall
    \/ InitRepairCall
    \/ InitAnyOrder

Next ==
    \/ Start
    \/ ExtractField
    \/ ExtractReturn
    \/ Validate
    \/ RepairCall
    \/ RepairField
    \/ RepairSkip
    \/ RepairReturn
    \/ FinalValidation
    \/ Return
    \/ ValidateCall
    \/ ServiceRecovers
    \/ AnyOrderExtract
    \/ AnyOrderRepair

Spec == Init /\ [][Next]_vars

\* The steps of a run of extract_herb_information. The interpreter keeps
\* running the program, and every chain.invoke ends (it returns or raises): a
\* step that can be taken is taken.
NextPipeline ==
    \/ Start
    \/ ExtractField
    \/ ExtractReturn
    \/ Validate
    \/ RepairCall
    \/ RepairField
    \/ RepairSkip
    \/ RepairReturn
    \/ FinalValidation
    \/ Return
    \/ ServiceRecovers

\* The runs of extract_herb_information, under that condition.
FairSpec == InitPipeline /\ [][NextPipeline]_vars /\ WF_vars(NextPipeline)

\* ------------------------------------------------------------------ claims

Range(q) == {q[k] : k \in DOMAIN q}

\* The run is one of extract_herb_information.
Pipeline == entry = "extract_herb_information"

\* extract_initial_information has returned in this run.
Extracted == Pipeline /\ pc \notin {"start", "extract"}

\* re_extract_missing_fields has been entered in this run.
InRepair == repairEntered > 0

\* The fields whose extraction call raised.
FailedExtractions == {f \in Fields : extractCalls[f] > 0 /\ ~extractOutcome[f].ok}

\* C1 (sentinel fallback): when every generation call of
\* extract_initial_information failed, every field of the record it returns
\* equals that field's own sentinel: 'Not available' for title, authors and
\* year, 'Not mentioned' for the other 13.
C1_SentinelFallback ==
    (Extracted /\ FailedExtractions = Fields) =>
        \A f \in Fields :
            first_extraction[f] =
                IF f \in {"title", "authors", "year"} THEN NotAvailable ELSE NotMentioned

\* C2 (total coverage): whatever calls failed, the record returned by
\* extract_initial_information has exactly the 16 schema names as keys and
\* every field holds a str, never None.
C2_TotalCoverage ==
    Extracted =>
        /\ DOMAIN first_extraction = Fields
        /\ Cardinality(DOMAIN first_extraction) = 16
        /\ \A f \in Fields : first_extraction[f] # None /\ IsStr(first_extraction[f])

\* C2: extraction has returned after a run in which some call failed and
\* some call succeeded.
C2_Witness ==
    /\ Extracted
    /\ FailedExtractions # {}
    /\ FailedExtractions # Fields

\* C3 (per-field isolation): whichever calls fail, extraction issues exactly
\* one call for each of the 16 fields, never a second one, and every field
\* whose call succeeded holds the trimmed response of its own call.
C3_PerFieldIsolation ==
    /\ \A f \in Fields : extractCalls[f] <= 1
    /\ Extracted =>
         \A f \in Fields :
            /\ extractCalls[f] = 1
            /\ extractOutcome[f].ok =>
                  first_extraction[f] = Strip(extractOutcome[f].text)

\* C3: extraction has returned, the call of one field failed, and a field
\* that comes later holds the trimmed text of its own successful call.
C3_Witness ==
    /\ Extracted
    /\ \E k, m \in DOMAIN FieldOrder :
         /\ k < m
         /\ ~extractOutcome[FieldOrder[k]].ok
         /\ extractOutcome[FieldOrder[m]].ok
         /\ first_extraction[FieldOrder[m]] = Strip(extractOutcome[FieldOrder[m]].text)

\* The tier the claim gives a value: status and confidence (in tenths).
C4_Tier(v) ==
    IF v = NotMentioned \/ v = NotAvailable \/ v = EmptyStr THEN <<"missing", 0>>
    ELSE IF Len(Strip(v)) < 5 THEN <<"partial", 3>>
    ELSE <<"complete", 9>>

C4_ReportOk(report, record) ==
    \A f \in DOMAIN report :
        /\ report[f].value = record[f]
        /\ <<report[f].status, report[f].confidence>> = C4_Tier(record[f])
        /\ <<report[f].status, report[f].confidence>> \in
              {<<"missing", 0>>, <<"partial", 3>>, <<"complete", 9>>}

\* C4 (validator tiers): every entry of every report validate_extraction
\* produces is MISSING/0.0 iff the value is 'Not mentioned', 'Not available'
\* or empty, else PARTIAL/0.3 iff the trimmed value has fewer than 5
\* characters, else COMPLETE/0.9; no other pair appears.
C4_ValidatorTiers ==
    /\ validations # NoReport =>
         C4_ReportOk(validations, IF Pipeline THEN first_extraction ELSE extraction)
    /\ final_validations # NoReport => C4_ReportOk(final_validations, extraction)

\* C4: a report holds a value of trimmed length 4 (5 characters before the
\* trim) as PARTIAL beside a value of length 5 as COMPLETE.
C4_Witness ==
    /\ validations # NoReport
    /\ \E f, g \in DOMAIN validations :
         /\ Len(validations[f].value) = 5
         /\ Len(Strip(validations[f].value)) = 4
         /\ validations[f].status = PARTIAL
         /\ Len(Strip(validations[g].value)) = 5
         /\ validations[g].status = COMPLETE

\* A loop iteration of re_extract_missing_fields issues its call in this step.
RepairCallStep == pc = "repair" /\ repairCalls' # repairCalls

\* The acceptance rule as the claim words it.
C5_Accept(r) ==
    /\ Strip(r) # EmptyStr
    /\ Lower(Strip(r)) \notin {LowerNotMentioned, LowerNotAvailable, EmptyStr}

\* C5 (repair acceptance rule): when the repair call of a field returns the
\* text r, the field becomes trim(r) iff trim(r) is non-empty and its
\* lower-cased form is none of 'not mentioned', 'not available', '';
\* otherwise it keeps the value it had before the call.
C5_AcceptanceRule ==
    [][ (RepairCallStep /\ repairOutcome'.ok) =>
            LET f == missing_fields[j]
                r == repairOutcome'.text
            IN  /\ repairOutcome'.field = f
                /\ updated_extraction'[f] =
                      IF C5_Accept(r) THEN Strip(r) ELSE updated_extraction[f]
      ]_vars

\* C5: a repair call has just returned an upper-case sentinel, which left the
\* field at its value, after an earlier call's text replaced another field.
C5_Witness ==
    /\ pc = "repair"
    /\ repairOutcome.ok
    /\ Lower(Strip(repairOutcome.text)) = LowerNotMentioned
    /\ Strip(repairOutcome.text) # LowerNotMentioned
    /\ updated_extraction[repairOutcome.field] = initial_extraction[repairOutcome.field]
    /\ \E g \in Fields :
         /\ updated_extraction[g] # initial_extraction[g]
         /\ updated_extraction[g] = Canonical

\* The record re_extract_missing_fields hands back, once it has returned.
RepairReturned == InRepair /\ pc \notin {"repair_call", "repair"} /\ ~raised
RepairResult == IF Pipeline THEN updated_extraction ELSE returned

\* C6 (repair frame): a field that is not in fieldsToFix has the same value
\* in the record passed in and in the record being updated and returned, and
\* the returned record has the key set of the record passed in.
C6_RepairFrame ==
    /\ InRepair =>
         /\ DOMAIN updated_extraction = DOMAIN initial_extraction
         /\ \A f \in DOMAIN initial_extraction :
               f \notin Range(missing_fields) =>
                   updated_extraction[f] = initial_extraction[f]
    /\ RepairReturned =>
         /\ DOMAIN RepairResult = DOMAIN initial_extraction
         /\ \A f \in DOMAIN initial_extraction :
               f \notin Range(missing_fields) =>
                   RepairResult[f] = initial_extraction[f]
    /\ (RepairReturned /\ Pipeline /\ pc = "final") => extraction = updated_extraction

\* C6: repair has returned a record that differs from the one passed in,
\* while a field outside fieldsToFix holds a text that is no complete answer.
C6_Witness ==
    /\ RepairReturned
    /\ RepairResult # initial_extraction
    /\ \E g \in Fields \ Range(missing_fields) : FieldStatus(initial_extraction[g]) # COMPLETE

\* C7 (repair failure isolation): a failed repair call raises nothing to the
\* caller, leaves the record as it was, and the loop goes on to the next
\* element; so when repair has returned, every field of fieldsToFix that has a
\* repair prompt has had its call.
C7_RepairFailureIsolation ==
    /\ [](InRepair => ~raised)
    /\ [][ (RepairCallStep /\ ~repairOutcome'.ok) =>
              /\ ~raised'
              /\ pc' = "repair"
              /\ j' = j + 1
              /\ updated_extraction' = updated_extraction
         ]_vars
    /\ [](RepairReturned =>
            \A k \in DOMAIN missing_fields :
                missing_fields[k] \in Fields \ {"title", "authors", "biological_activity"}
                    => repairCalls[missing_fields[k]] >= 1)

\* C7: the service is down, the repair calls of two different fields to fix
\* have both been issued, one after the other, both failed, nothing was
\* raised and the record is still the one passed in.
C7_Witness ==
    /\ serviceDown
    /\ pc = "repair"
    /\ \E k, m \in DOMAIN missing_fields :
         /\ k < m
         /\ m < j
         /\ missing_fields[k] # missing_fields[m]
         /\ repairCalls[missing_fields[k]] = 1
         /\ repairCalls[missing_fields[m]] = 1
    /\ ~repairOutcome.ok
    /\ ~raised
    /\ updated_extraction = initial_extraction

\* The fields that have no repair prompt.
NoRepairPrompt == {"title", "authors", "biological_activity"}

\* The fields the first validation classified MISSING or PARTIAL.
NeedsRepair == {f \in DOMAIN validations : validations[f].status \in {MISSING, PARTIAL}}

\* C8 as stated (exactly one repair call per field needing repair): at the
\* end of a run of extract_herb_information every field the first validation
\* classified MISSING or PARTIAL has had exactly one repair call.
C8_OneCallPerFieldNeedingRepair ==
    (Pipeline /\ pc = "done") =>
        \A f \in NeedsRepair : repairCalls[f] = 1

\* C8 as amended: at the end of a run every field classified MISSING or
\* PARTIAL that has a repair prompt has had exactly one repair call, every
\* such field without a repair prompt (title, authors, biological_activity)
\* has had none, and repair was entered at most once.
C8_OneCallPerRepairableField ==
    (Pipeline /\ pc = "done") =>
        /\ \A f \in NeedsRepair :
              repairCalls[f] = IF f \in NoRepairPrompt THEN 0 ELSE 1
        /\ repairEntered <= 1

\* C8: a run has ended in which a field with a repair prompt and a field
\* without one both needed repair.
C8_Witness ==
    /\ Pipeline
    /\ pc = "done"
    /\ NeedsRepair \ NoRepairPrompt # {}
    /\ NeedsRepair \cap NoRepairPrompt # {}

\* C9 (single pass): in a run of extract_herb_information repair issues at
\* most one call per field, and only for fields selected for repair, also
\* when the call fails, is rejected, or leaves the field short of COMPLETE.
C9_SinglePass ==
    Pipeline =>
        \A f \in CallNames :
            /\ repairCalls[f] <= 1
            /\ repairCalls[f] > 0 => f \in Range(missing_fields)

\* C9: a run has ended in which a field had its one repair call and is still
\* not COMPLETE.
C9_Witness ==
    /\ Pipeline
    /\ pc = "done"
    /\ \E f \in Fields : repairCalls[f] = 1 /\ FieldStatus(returned[f]) # COMPLETE

\* C10 (input validation): handed an empty document, extract_herb_information
\* issues no generation call, returns no record and ends in an error
\* reported to the caller.
C10_InputValidation ==
    (Pipeline /\ paper_text = EmptyStr) =>
        /\ \A f \in Fields : extractCalls[f] = 0 /\ repairCalls[f] = 0
        /\ returned = NoRecord
        /\ pc = "done" => raised

\* The sum of a per-field counter.
RECURSIVE SumOver(_, _)
SumOver(cnt, S) ==
    IF S = {} THEN 0
    ELSE LET f == CHOOSE x \in S : TRUE IN cnt[f] + SumOver(cnt, S \ {f})

\* A run of extract_herb_information on a document that is not empty.
PipelineOnPaper == Pipeline /\ paper_text # EmptyStr

\* C11 (the pipeline always returns a populated record): on a non-empty
\* document, whatever calls fail in extraction and in repair, the run of
\* extract_herb_information ends, nothing is raised to the caller, and the
\* record returned holds a str for each of the 16 schema fields.
C11_AlwaysReturnsPopulatedRecord ==
    /\ [](PipelineOnPaper => ~raised)
    /\ []((PipelineOnPaper /\ pc = "done") =>
            /\ DOMAIN returned = Fields
            /\ Cardinality(DOMAIN returned) = 16
            /\ \A f \in Fields : returned[f] # None /\ IsStr(returned[f]))
    /\ (PipelineOnPaper ~> (pc = "done" /\ returned # NoRecord))

\* C11: a run on a paper has ended in which every extraction call and every
\* repair call failed.
C11_Witness ==
    /\ PipelineOnPaper
    /\ pc = "done"
    /\ FailedExtractions = Fields
    /\ serviceDown
    /\ SumOver(repairCalls, Fields) = 13
    /\ \A f \in Fields : returned[f] = NotMentioned

\* C12 (repair is skipped when nothing needs it): once the first validation
\* has classified every field COMPLETE, re_extract_missing_fields is never
\* entered, the run issues 16 generation calls in all, and the record
\* returned is the extracted record.
C12_RepairSkipped ==
    (Pipeline /\ validations # NoReport /\ NeedsRepair = {}) =>
        /\ repairEntered = 0
        /\ pc \notin {"repair_call", "repair"}
        /\ SumOver(extractCalls, Fields) + SumOver(repairCalls, CallNames) = 16
        /\ extraction = first_extraction
        /\ pc = "done" => returned = first_extraction

\* C12: a run has ended in which every field was COMPLETE at the first
\* validation, one of them with a text that is not the plain answer.
C12_Witness ==
    /\ Pipeline
    /\ pc = "done"
    /\ validations # NoReport
    /\ NeedsRepair = {}
    /\ returned = first_extraction
    /\ \E f \in Fields : returned[f] # Canonical

\* A run whose loops take the fields in a chosen order.
AnyOrder == entry = "any_order"

\* What a field holds after extraction, from the outcome of its own call.
OwnExtracted(o) == IF o.ok THEN Strip(o.text) ELSE NotMentioned

\* C13 (the content of the final record is independent of the call order): on
\* a service whose outcome is fixed per field and per stage, whatever order
\* the extraction loop and the repair loop take the fields in, the extracted
\* record and the final record are the ones the schema order gives; each
\* field of the extracted record is decided by the outcome of its own call;
\* and the loop of the code, run call by call, builds the record these
\* loops compute from the outcomes it met.
C13_OrderIndependence ==
    /\ (AnyOrder /\ pc # "any_order_extract") =>
          /\ extraction = ExtractedIn(FieldOrder, service.extraction)
          /\ \A f \in Fields : extraction[f] = OwnExtracted(service.extraction[f])
    /\ (AnyOrder /\ pc = "done") =>
          returned = RepairedIn(FieldOrder, extraction, service.repair)
    /\ Extracted => first_extraction = ExtractedIn(FieldOrder, extractOutcome)

\* C13: both loops ran in another order than the schema's, on a service that
\* failed every extraction call and repaired two fields with different texts.
C13_Witness ==
    /\ AnyOrder
    /\ pc = "done"
    /\ order.extraction # FieldOrder
    /\ order.repair = Reverse(FieldOrder)
    /\ \A f \in Fields : ~service.extraction[f].ok
    /\ returned["dose"] # NotMentioned
    /\ returned["reference"] # NotMentioned
    /\ returned["dose"] # returned["reference"]

\* A step in which validate_extraction runs: the first validation, the final
\* validation of a verbose run, or a direct call.
ValidatorRuns ==
    \/ pc = "validate" /\ pc' # pc
    \/ pc = "final" /\ verbose /\ pc' # pc
    \/ pc = "validate_call" /\ pc' # pc

\* A verbose run is past its final validation, and the record validated there
\* is the one the first validation read.
ValidatedTwice ==
    /\ Pipeline
    /\ verbose
    /\ pc \in {"return", "done"}
    /\ extraction = first_extraction

SchemaPos(f) == CHOOSE k \in DOMAIN FieldOrder : FieldOrder[k] = f

\* The pipeline has run get_missing_fields on its first report.
MissingListed == Pipeline /\ validations # NoReport

\* C15 (missingOrPartialFields): the list get_missing_fields returned for the
\* report holds exactly the fields whose status is MISSING or PARTIAL, each
\* once, in schema order, and it is empty iff every field is COMPLETE.
C15_MissingOrPartialFields ==
    MissingListed =>
        /\ Range(missing_fields) = NeedsRepair
        /\ \A a, b \in DOMAIN missing_fields :
              a < b => SchemaPos(missing_fields[a]) < SchemaPos(missing_fields[b])
        /\ Len(missing_fields) = Cardinality(NeedsRepair)
        /\ (missing_fields = <<>>) <=>
              (\A f \in DOMAIN validations : validations[f].status = COMPLETE)

\* C15: the list holds one field, which is PARTIAL, the 15 others being COMPLETE.
C15_Witness ==
    /\ MissingListed
    /\ Len(missing_fields) = 1
    /\ validations[missing_fields[1]].status = PARTIAL
    /\ Cardinality({f \in Fields : validations[f].status = COMPLETE}) = 15

\* The report is one of the record: the same keys, and under each key an entry
\* with that field's name and the record's value for it.
C16_Agrees(report, record) ==
    /\ DOMAIN report = DOMAIN record
    /\ Keys(report) = Keys(record)
    /\ \A f \in DOMAIN record :
          /\ report[f].field_name = f
          /\ report[f].value = record[f]

\* C16 (report/record agreement): the report of the first validation has the
\* key set of the record extraction returned, the report of the final
\* validation that of the record after repair, the report of a direct call
\* that of the record passed in; and each entry carries its field's name and
\* the value that record held for the field.
C16_ReportRecordAgreement ==
    /\ (Pipeline /\ validations # NoReport) => C16_Agrees(validations, first_extraction)
    /\ (Pipeline /\ final_validations # NoReport) =>
          C16_Agrees(final_validations, extraction)
    /\ (entry = "validate_extraction" /\ pc = "done") =>
          C16_Agrees(validations, extraction)

\* C16: a direct call has reported on a record that holds a text with outer
\* blanks, and the entry of that field holds the text with its blanks.
C16_Witness ==
    /\ entry = "validate_extraction"
    /\ pc = "done"
    /\ \E f \in Fields :
          /\ extraction[f] # Strip(extraction[f])
          /\ validations[f].value = extraction[f]
          /\ validations[f].field_name = f

\* The fields of the list handed to repair that have no repair prompt.
SkippedFields == Range(missing_fields) \cap NoRepairPrompt

\* C17 (fields without a repair template are skipped): when the list handed
\* to re_extract_missing_fields holds title, authors or biological_activity,
\* no generation call is ever issued for such a field, nothing is raised, the
\* record returned holds for it the value the record passed in held, and each
\* other field of the list that has a prompt has had its call.
C17_NoTemplateSkipped ==
    (InRepair /\ SkippedFields # {}) =>
        /\ \A f \in NoRepairPrompt : repairCalls[f] = 0
        /\ ~raised
        /\ \A f \in SkippedFields : updated_extraction[f] = initial_extraction[f]
        /\ RepairReturned =>
              /\ \A f \in SkippedFields : RepairResult[f] = initial_extraction[f]
              /\ \A f \in Range(missing_fields) \cap RepairPromptFields :
                    repairCalls[f] >= 1

\* C17: repair has returned from a list that held title beside dose: title is
\* still the marker extraction stored, dose holds the text repair obtained.
C17_Witness ==
    /\ RepairReturned
    /\ {"title", "dose"} \subseteq Range(missing_fields)
    /\ initial_extraction["title"] = NotMentioned
    /\ RepairResult["title"] = NotMentioned
    /\ initial_extraction["dose"] = NotMentioned
    /\ RepairResult["dose"] = Canonical
    /\ repairCalls["title"] = 0
    /\ repairCalls["dose"] = 1

\* The fields whose extraction call returned a text that is empty once trimmed.
EmptyAnswers ==
    {f \in Fields : /\ extractCalls[f] > 0
                    /\ extractOutcome[f].ok
                    /\ Strip(extractOutcome[f].text) = EmptyStr}

\* C18 (an empty response is kept as empty): a field whose extraction call
\* succeeded with a text that is empty after trimming holds the empty string
\* in the extracted record, not a marker, and the first validation classifies
\* it MISSING with confidence 0.0.
C18_EmptyKeptEmpty ==
    Extracted =>
        \A f \in EmptyAnswers :
            /\ first_extraction[f] = EmptyStr
            /\ first_extraction[f] \notin {NotMentioned, NotAvailable}
            /\ validations # NoReport =>
                  /\ validations[f].value = EmptyStr
                  /\ validations[f].status = MISSING
                  /\ validations[f].confidence = 0

\* C18: the call for title returned blanks only, and the first validation has
\* classified the empty title.
C18_Witness ==
    /\ Extracted
    /\ "title" \in EmptyAnswers
    /\ extractOutcome["title"].text # EmptyStr
    /\ first_extraction["title"] = EmptyStr
    /\ validations # NoReport
    /\ validations["title"].status = MISSING

\* The stages of extract_herb_information, in the order of its statements.
StageOf(p) ==
    CASE p = "start" -> 0
      [] p = "extract" -> 1
      [] p = "validate" -> 2
      [] p \in {"repair_call", "repair"} -> 3
      [] p = "final" -> 4
      [] p = "return" -> 5
      [] OTHER -> 6

\* The repair stage of the run is over, or was skipped.
PastRepair == Pipeline /\ pc \in {"final", "return", "done"}

\* C19 (the pipeline is one pass): a run of extract_herb_information never
\* goes back to an earlier stage; the first validation starts after the 16
\* writes of extraction; repair is entered only from the first validation and
\* at most once; the final validation comes after it and only in a verbose
\* run; and from the end of the repair stage on, whatever the final
\* validation reports, no generation call is issued.
C19_OnePass ==
    /\ [][Pipeline => StageOf(pc') >= StageOf(pc)]_vars
    /\ [][(Pipeline /\ repairEntered' # repairEntered) =>
            (pc = "repair_call" /\ repairEntered = 0 /\ validations # NoReport
               /\ final_validations = NoReport)]_vars
    /\ [][PastRepair =>
            (extractCalls' = extractCalls /\ repairCalls' = repairCalls /\ odd' = odd
               /\ StageOf(pc') > 3)]_vars
    /\ []((Pipeline /\ StageOf(pc) >= 2) =>
            (DOMAIN extracted_fields = Fields /\ SumOver(extractCalls, Fields) = 16))
    /\ []((Pipeline /\ StageOf(pc) < 2) => validations = NoReport)
    /\ []((Pipeline /\ StageOf(pc) < 5) => final_validations = NoReport)
    /\ []((Pipeline /\ final_validations # NoReport) => verbose)
    /\ [](Pipeline => repairEntered <= 1)

\* C19: a verbose run went through repair, its final validation reported a
\* field that is not COMPLETE, and the run has returned.
C19_Witness ==
    /\ Pipeline
    /\ pc = "done"
    /\ repairEntered = 1
    /\ final_validations # NoReport
    /\ \E f \in Fields : final_validations[f].status # COMPLETE
    /\ SumOver(repairCalls, Fields) >= 1

\* The fields the first validation classified COMPLETE.
CompleteAtFirst == {f \in DOMAIN validations : validations[f].status = COMPLETE}

\* C20 (fields that already succeeded are not disturbed): a field the first
\* validation classified COMPLETE gets no repair generation call, and it
\* holds the value extraction gave it in the record repair works on, in the
\* record the pipeline carries, and in the record returned.
C20_CompleteUndisturbed ==
    (Pipeline /\ validations # NoReport) =>
        \A f \in CompleteAtFirst :
            /\ repairCalls[f] = 0
            /\ f \notin Range(missing_fields)
            /\ extraction[f] = first_extraction[f]
            /\ InRepair => updated_extraction[f] = first_extraction[f]
            /\ pc = "done" => returned[f] = first_extraction[f]

\* C20: a run has returned in which repair changed a field while another
\* field, COMPLETE at the first validation, holds what extraction gave it.
C20_Witness ==
    /\ Pipeline
    /\ pc = "done"
    /\ \E f, g \in Fields :
          /\ f \in CompleteAtFirst
          /\ returned[f] = first_extraction[f]
          /\ g \notin CompleteAtFirst
          /\ repairCalls[g] = 1
          /\ returned[g] # first_extraction[g]

\* MISSING < PARTIAL < COMPLETE
StatusRank(st) == IF st = MISSING THEN 0 ELSE IF st = PARTIAL THEN 1 ELSE 2

\* The record a run of extract_herb_information holds once repair is over: the
\* one it carries to the final validation and returns.
AfterRepairStage == Pipeline /\ validations # NoReport /\ pc \in {"final", "return", "done"}

\* C21 (status never gets worse through the pipeline): in every run of
\* extract_herb_information, during repair and after it, each field is
\* classified at least as high (MISSING < PARTIAL < COMPLETE) as the first
\* validation classified it, in the working record, in the report of the final
\* validation and in the record returned; a value repair wrote is not
\* classified MISSING; and a field that was not empty before repair is not
\* empty after it.
C21_StatusNeverWorse ==
    /\ (Pipeline /\ InRepair) =>
          \A f \in Fields :
              StatusRank(FieldStatus(updated_extraction[f])) >=
                  StatusRank(validations[f].status)
    /\ AfterRepairStage =>
          \A f \in Fields :
              /\ StatusRank(FieldStatus(extraction[f])) >= StatusRank(validations[f].status)
              /\ extraction[f] # first_extraction[f] =>
                    FieldStatus(extraction[f]) # MISSING
              /\ first_extraction[f] # EmptyStr => extraction[f] # EmptyStr
    /\ (Pipeline /\ final_validations # NoReport) =>
          \A f \in Fields :
              StatusRank(final_validations[f].status) >= StatusRank(validations[f].status)
    /\ (Pipeline /\ pc = "done") =>
          \A f \in Fields :
              StatusRank(FieldStatus(returned[f])) >= StatusRank(validations[f].status)

\* C21: a verbose run has returned in which one field was PARTIAL at the
\* first validation and, rewritten by repair, is COMPLETE at the final one.
C21_Witness ==
    /\ Pipeline
    /\ pc = "done"
    /\ final_validations # NoReport
    /\ \E f \in Fields :
          /\ validations[f].status = PARTIAL
          /\ final_validations[f].status = COMPLETE
          /\ returned[f] # first_extraction[f]

\* C22 (a failed extraction is always picked up for repair): once the first
\* validation has run, every field whose extraction call raised, title,
\* authors and year included, is classified MISSING with confidence 0.0 and
\* is in the list get_missing_fields returned; that list is not empty, so
\* the run goes on to re_extract_missing_fields with it.
C22_FailedExtractionPickedUp ==
    (Pipeline /\ validations # NoReport) =>
        /\ \A f \in FailedExtractions :
              /\ validations[f].status = MISSING
              /\ validations[f].confidence = 0
              /\ \E k \in DOMAIN missing_fields : missing_fields[k] = f
        /\ FailedExtractions # {} => (pc = "repair_call" \/ repairEntered = 1)

\* C22: the call for title raised, the 15 others succeeded, and repair was entered with the
\* list that holds title alone.
C22_Witness ==
    /\ Pipeline
    /\ FailedExtractions = {"title"}
    /\ validations # NoReport
    /\ validations["title"].value = NotMentioned
    /\ missing_fields = <<"title">>
    /\ repairEntered = 1

\* The record the caller handed to re_extract_missing_fields, as it was at the
\* call: the caller's own `extraction` in a direct call, the record extraction
\* returned in a run of the pipeline.
PreCallRecord == IF Pipeline THEN first_extraction ELSE extraction

====
